---- MODULE Spec2Model ----
(***************************************************************************)
(* RCPSPSolver (src/solver.py): a resource-constrained project scheduling  *)
(* problem is handed to OR-Tools CP-SAT as a constraint model; the result  *)
(* of the solver call is stored in the object as the `_solution` dict.     *)
(*                                                                         *)
(* The state is one RCPSPSolver object: its three input lists, the stored  *)
(* result, and what the last solve call did.  CP-SAT itself is a library:  *)
(* what it may answer for a model is given by its documented contract      *)
(* (CpSolverOutcomes), every answer the contract allows being possible.    *)
(***************************************************************************)
EXTENDS Integers, FiniteSets, Sequences, TLC

VARIABLES
    tasks,          \* self.tasks: sequence of [id, duration, resource_req]
    resources,      \* self.resources: sequence of [id, capacity]
    dependencies,   \* self.dependencies: the (pred, succ) pairs
    _solution,      \* self._solution: None or the result dict
    ret,            \* what the last solve call returned / raised
    status,         \* local `status` of the last solve call (CP-SAT's answer)
    time_limit,     \* the time_limit argument of the last solve call
    searched,       \* whether the last solve call reached solver.Solve(model)
    pc,             \* where the critical-path trace of the report stands
    current,        \* the trace's `current`: the task ids of this pass
    critical_path,  \* the trace's `critical_path` / `cp`: the edges reported
    passes          \* the passes of the trace's while loop made so far

vars ==
    <<tasks, resources, dependencies, _solution, ret, status, time_limit,
      searched, pc, current, critical_path, passes>>

----------------------------------------------------------------------------
(* Bounds of the explored inputs.                                          *)

MaxTasks == 3
MaxDur == 2
MaxCap == 2
MaxRes == 2
MaxDeps == 2
\* the durations of a well-formed instance sum to at most MaxWork
MaxWork == 4
\* well-formed instances carry at most MaxCells (task, resource) pairs
MaxCells == 4
\* malformed instances carry at most MaxRawTasks tasks, MaxRawRes resources
MaxRawTasks == 2
MaxRawRes == 1

\* the durations of the two-task instances go up to MaxPairDur
MaxPairDur == 4
\* the passes of the trace's loop are counted up to MaxPasses, and from 0
\* again after that
MaxPasses == 4

\* solve(self, time_limit: float = 30.0)
DefaultTimeLimit == 30

\* the time budgets a call is made with: zero and the default
TimeLimits == {0, DefaultTimeLimit}

\* Task ids are 1..n, resource ids 0..m-1 (as in the sample workbook).
\* UnknownTask / UnknownRes are ids that no task / resource list contains.
UnknownTask == MaxTasks + 1
UnknownRes == MaxRes

----------------------------------------------------------------------------
(* Python values.                                                          *)

\* Python's None, as stored in self._solution by __init__.
None == [py |-> "None"]

\* A Python int where the same expression may also give None (the return
\* value of makespan()): tagged, so that the two can be told apart.
PyInt(n) == [py |-> "int", value |-> n]

RECURSIVE SumOver(_, _)
\* sum(f[x] for x in S)
SumOver(f, S) ==
    IF S = {} THEN 0
    ELSE LET x == CHOOSE y \in S : TRUE
         IN  f[x] + SumOver(f, S \ {x})

\* max(S) for a non-empty set of integers
MaxOf(S) == CHOOSE x \in S : \A y \in S : y <= x

\* dict.get(key, default)
Get(d, key, default) == IF key \in DOMAIN d THEN d[key] ELSE default

\* {t["id"] for t in tasks}: the keys of the starts / ends / intervals dicts
TaskIds(ts) == {ts[i].id : i \in 1..Len(ts)}

\* the task record that the dicts keyed by id end up holding for `tid`
\* (a later task with the same id overwrites an earlier one)
TaskOf(ts, tid) ==
    ts[MaxOf({i \in 1..Len(ts) : ts[i].id = tid})]

----------------------------------------------------------------------------
(* The CP-SAT model that solve() builds (src/solver.py, lines 40-71).      *)

\* (mutant) the horizon is the longest single duration
max_makespan_Longest(ts) == MaxOf({ts[i].duration : i \in 1..Len(ts)} \cup {0})

\* max_makespan = sum(t["duration"] for t in self.tasks)
max_makespan(ts) ==
    SumOver([i \in 1..Len(ts) |-> ts[i].duration], 1..Len(ts))

\* (mutant) the end taken as the last occupied time unit
IntervalEnd_Inclusive(start, size) == start + size - 1

\* NewIntervalVar(start, size, end): the interval ties end to start + size.
IntervalEnd(start, size) == start + size

\* (mutant) the successor only has to start after the predecessor's start
Precedence_FromStart(a, deps) ==
    \A d \in deps : a.starts[d[2]] >= a.starts[d[1]]

\* (mutant) the successor may start one unit before the predecessor's end
Precedence_OverlapOne(a, deps) ==
    \A d \in deps : a.starts[d[2]] >= a.ends[d[1]] - 1

\* model.Add(starts[succ] >= ends[pred]) for every (pred, succ)
Precedence(a, deps) ==
    \A d \in deps : a.starts[d[2]] >= a.ends[d[1]]

\* starts[succ] / ends[pred] raise KeyError for an id that no task carries
DepsKeyError(ts, deps) ==
    \E d \in deps : d[1] \notin TaskIds(ts) \/ d[2] \notin TaskIds(ts)

\* demand = t["resource_req"].get(res["id"], 0)
Demand(t, res) == Get(t.resource_req, res.id, 0)

\* (mutant) a demand of one unit is not entered into the constraint
Users_AboveOne(ts, res) == {i \in 1..Len(ts) : Demand(ts[i], res) > 1}

\* the tasks whose interval goes into the cumulative constraint of `res`
\* (if demand > 0: ints.append(...))
Users(ts, res) == {i \in 1..Len(ts) : Demand(ts[i], res) > 0}

\* (mutant) an interval does not count at its own start time
Cumulative_OpenStart(a, ts, res, H) ==
    \A t \in 0..H :
        LET running == {i \in Users(ts, res) :
                            a.starts[ts[i].id] < t /\ t < a.ends[ts[i].id]}
        IN  SumOver([i \in running |-> Demand(ts[i], res)], running)
                <= res.capacity

\* CP-SAT's cumulative constraint: at every time point the demands of the
\* intervals [start, end) that contain it sum to at most the capacity;
\* an interval of size zero contains no point.
Cumulative(a, ts, res, H) ==
    \A t \in 0..H :
        LET running == {i \in Users(ts, res) :
                            a.starts[ts[i].id] <= t /\ t < a.ends[ts[i].id]}
        IN  SumOver([i \in running |-> Demand(ts[i], res)], running)
                <= res.capacity

\* (mutant) a resource with a single user gets no constraint
Capacity_SharedOnly(a, ts, rs, H) ==
    \A j \in 1..Len(rs) :
        Cardinality(Users(ts, rs[j])) > 1 => Cumulative(a, ts, rs[j], H)

\* (mutant) a resource of capacity 1 gets no constraint
Capacity_SkipUnit(a, ts, rs, H) ==
    \A j \in 1..Len(rs) :
        (Users(ts, rs[j]) # {} /\ rs[j].capacity > 1)
            => Cumulative(a, ts, rs[j], H)

\* for res in self.resources: ... if ints: model.AddCumulative(...)
Capacity(a, ts, rs, H) ==
    \A j \in 1..Len(rs) :
        Users(ts, rs[j]) # {} => Cumulative(a, ts, rs[j], H)

\* (mutant) the makespan tied to the end of the last task of the list
MaxEquality_LastTask(e, ts) == e[ts[Len(ts)].id]

\* model.AddMaxEquality(makespan, [ends[t["id"]] for t in self.tasks])
MaxEquality(e, ts) == MaxOf({e[ts[i].id] : i \in 1..Len(ts)})

\* The assignment of the model's variables that a choice of start values
\* determines: every end through its interval, the makespan through the
\* max-equality.
Assignment(s, ts) ==
    LET e == [tid \in TaskIds(ts) |->
                 IntervalEnd(s[tid], TaskOf(ts, tid).duration)]
    IN  [starts |-> s, ends |-> e, makespan |-> MaxEquality(e, ts)]

\* Every variable lies in its domain NewIntVar(0, max_makespan, ...).
InDomain(a, H) ==
    /\ \A tid \in DOMAIN a.starts : a.starts[tid] \in 0..H
    /\ \A tid \in DOMAIN a.ends : a.ends[tid] \in 0..H
    /\ a.makespan \in 0..H

\* The solutions of the model: the assignments that satisfy every
\* constraint solve() added.
Solutions(ts, rs, deps) ==
    LET H == max_makespan(ts)
    IN  {a \in {Assignment(s, ts) : s \in [TaskIds(ts) -> 0..H]} :
            /\ InDomain(a, H)
            /\ Precedence(a, deps)
            /\ Capacity(a, ts, rs, H)}

\* (mutant) no objective: every solution counts as optimal
Minimize_NoObjective(sols) == sols

\* model.Minimize(makespan): the solutions no other solution improves on.
Minimize(sols) ==
    {a \in sols : \A b \in sols : a.makespan <= b.makespan}

\* (mutant) a search stopped by the limit hands back whatever values its
\* variables hold, the constraints satisfied or not
CpSolverOutcomes_PartialOnTimeout(ts, rs, deps, limit) ==
    LET H == max_makespan(ts)
        sols == Solutions(ts, rs, deps)
        held == {a \in {Assignment(st, ts) : st \in [TaskIds(ts) -> 0..H]} :
                    InDomain(a, H)}
    IN  {[status |-> "OPTIMAL", values |-> a] : a \in Minimize(sols)}
        \cup {[status |-> "FEASIBLE", values |-> a] : a \in held}
        \cup (IF sols = {} THEN {[status |-> "INFEASIBLE", values |-> None]}
                           ELSE {})
        \cup {[status |-> "UNKNOWN", values |-> None]}

\* solver.Solve(model) under max_time_in_seconds = limit: what CP-SAT may
\* answer.
\*   OPTIMAL     a solution with the least objective, search completed;
\*   FEASIBLE    some solution, the time limit stopped the search;
\*   INFEASIBLE  the model was proven to have no solution;
\*   UNKNOWN     the time limit was reached before anything was decided.
\* Every limit passed is a finite number of seconds (zero is a budget of
\* zero seconds, not "no limit"), and a finite budget can run out at any
\* point of the search, so the answers do not depend on its value.
CpSolverOutcomes(ts, rs, deps, limit) ==
    LET sols == Solutions(ts, rs, deps)
    IN  {[status |-> "OPTIMAL", values |-> a] : a \in Minimize(sols)}
        \cup {[status |-> "FEASIBLE", values |-> a] : a \in sols}
        \cup (IF sols = {} THEN {[status |-> "INFEASIBLE", values |-> None]}
                           ELSE {})
        \cup {[status |-> "UNKNOWN", values |-> None]}

\* the dict stored on success (lines 79-91)
SuccessDict(ts, a) ==
    [status |-> "SUCCESS",
     makespan |-> a.makespan,
     task_schedule |->
        [tid \in TaskIds(ts) |->
            [start |-> a.starts[tid],
             end |-> a.ends[tid],
             duration |-> TaskOf(ts, tid).duration]]]

\* the dict stored on failure (line 94)
FailedDict == [status |-> "FAILED"]

\* (mutant) only a proven optimum counts as success
IsSuccessStatus_OptimalOnly(st) == st = "OPTIMAL"

\* if status in (cp_model.OPTIMAL, cp_model.FEASIBLE)
IsSuccessStatus(st) == st \in {"OPTIMAL", "FEASIBLE"}

----------------------------------------------------------------------------
(* Accessors (src/solver.py, lines 100-109).                               *)

\* RCPSPSolver.solution
solution == _solution

\* RCPSPSolver.makespan()
makespan ==
    IF _solution # None /\ _solution.status = "SUCCESS"
    THEN PyInt(_solution.makespan)
    ELSE None

----------------------------------------------------------------------------
(* The inputs explored.                                                    *)

\* resource_req dicts over the resource ids `keys`: entries with zero
\* demand are omitted (data_parser._str_to_req_dict), the others are 1..q.
ReqDicts(keys, q) == UNION {[K -> 1..q] : K \in SUBSET keys}

MkTasks(n, dur, req) ==
    [i \in 1..n |-> [id |-> i, duration |-> dur[i], resource_req |-> req[i]]]

MkResources(m, cap) ==
    [j \in 1..m |-> [id |-> j - 1, capacity |-> cap[j]]]

\* the sets of at most MaxDeps pairs over the ids `ids`
DepSets(ids) ==
    {D \in SUBSET (ids \X ids) : Cardinality(D) <= MaxDeps}

RECURSIVE Reach(_, _)
\* the ids reachable from the set `from` along the pairs of `deps`
Reach(from, deps) ==
    LET next == from \cup {d[2] : d \in {x \in deps : x[1] \in from}}
    IN  IF next = from THEN from ELSE Reach(next, deps)

\* some task is its own (transitive) successor
HasCycle(deps) ==
    \E d \in deps : d[1] \in Reach({d[2]}, deps)

\* __init__ stores the three lists and sets self._solution = None
Construct(ts, rs, deps) ==
    /\ tasks = ts
    /\ resources = rs
    /\ dependencies = deps
    /\ _solution = None
    /\ ret = "-"
    /\ status = "-"
    /\ time_limit = DefaultTimeLimit    \* unused until the first call
    /\ searched = FALSE
    /\ pc = "idle"
    /\ current = {}
    /\ critical_path = {}
    /\ passes = 0

\* Well-formed instances: positive durations and capacities, known ids,
\* acyclic dependencies; a demand may exceed a capacity.
InitWellFormed ==
    \E n \in 1..MaxTasks, m \in 1..MaxRes :
        /\ n * m <= MaxCells
        /\ \E dur \in [1..n -> 1..MaxDur],
              cap \in [1..m -> 1..MaxCap],
              req \in [1..n -> ReqDicts(0..(m - 1), MaxCap)],
              deps \in DepSets(1..n) :
                /\ SumOver(dur, 1..n) <= MaxWork
                /\ ~HasCycle(deps)
                /\ Construct(MkTasks(n, dur, req), MkResources(m, cap), deps)

\* Arbitrary instances over few tasks and resources: zero durations and
\* capacities, ids that do not exist, cyclic dependencies.
InitMalformed ==
    \E n \in 1..MaxRawTasks, m \in 0..MaxRawRes :
        \E dur \in [1..n -> 0..MaxDur],
           cap \in [1..m -> 0..MaxCap],
           req \in [1..n -> ReqDicts(0..(m - 1), MaxCap)
                            \cup {[k \in {UnknownRes} |-> 1]}],
           deps \in DepSets(1..n \cup {UnknownTask}) :
                Construct(MkTasks(n, dur, req), MkResources(m, cap), deps)

\* Two-task instances over one resource, with longer durations: the two
\* tasks independent or one the predecessor of the other.
InitPair ==
    \E dur \in [1..2 -> 1..MaxPairDur],
       cap \in [1..1 -> 1..MaxCap],
       req \in [1..2 -> ReqDicts({0}, MaxCap)],
       deps \in {{}, {<<1, 2>>}} :
            Construct(MkTasks(2, dur, req), MkResources(1, cap), deps)

Init == InitWellFormed \/ InitMalformed

----------------------------------------------------------------------------
(* RCPSPSolver.solve (src/solver.py, lines 38-95).                         *)

\* (mutant) a failing call leaves the stored result as it was
Solve_KeepOnFailure(limit) ==
    /\ time_limit' = limit
    /\ IF DepsKeyError(tasks, dependencies)
       THEN /\ ret' = "KeyError"
            /\ searched' = FALSE
            /\ status' = "-"
            /\ UNCHANGED _solution
       ELSE \E o \in CpSolverOutcomes(tasks, resources, dependencies, limit) :
            /\ searched' = TRUE
            /\ status' = o.status
            /\ IF IsSuccessStatus(o.status)
               THEN /\ _solution' = SuccessDict(tasks, o.values)
                    /\ ret' = "True"
               ELSE /\ UNCHANGED _solution
                    /\ ret' = "False"
    /\ UNCHANGED <<tasks, resources, dependencies>>
    /\ UNCHANGED <<pc, current, critical_path, passes>>

Solve(limit) ==
    /\ time_limit' = limit
    /\ IF DepsKeyError(tasks, dependencies)
       THEN \* the exception leaves solve() before the solver is created
            /\ ret' = "KeyError"
            /\ searched' = FALSE
            /\ status' = "-"
            /\ UNCHANGED _solution
       ELSE \E o \in CpSolverOutcomes(tasks, resources, dependencies, limit) :
            /\ searched' = TRUE
            /\ status' = o.status
            /\ IF IsSuccessStatus(o.status)
               THEN /\ _solution' = SuccessDict(tasks, o.values)
                    /\ ret' = "True"
               ELSE /\ _solution' = FailedDict
                    /\ ret' = "False"
    /\ UNCHANGED <<tasks, resources, dependencies>>
    /\ UNCHANGED <<pc, current, critical_path, passes>>

Next == \E limit \in TimeLimits : Solve(limit)

Spec == Init /\ [][Next]_vars

\* the solver object on the two-task instances
SpecPair == InitPair /\ [][Next]_vars

----------------------------------------------------------------------------
(* The backward critical-path trace of the report (src/report_generator.py, *)
(* display_critical_path lines 199-226, critical_path_list lines 288-302:   *)
(* the same loop twice).  `current` and `critical_path` are lists in the    *)
(* code; the loop only tests membership in `current`, so a set stands for   *)
(* it, and `critical_path` is kept as the set of edges appended so far with *)
(* the number of passes counted beside it.                                  *)

\* for pred, succ in dependencies: if succ in current: ...
\*     if sch_pred["end"] == sch_succ["start"]
TightEdges(sol, deps, cur) ==
    {d \in deps :
        /\ d[2] \in cur
        /\ sol.task_schedule[d[1]].end = sol.task_schedule[d[2]].start}

\* the call, up to the loop: display_critical_path returns at once unless
\* the solution is a SUCCESS dict; then current = the tasks that end at the
\* makespan and critical_path = []
TraceCall ==
    /\ pc = "idle"
    /\ _solution # None /\ _solution.status = "SUCCESS"
    /\ current' = {tid \in DOMAIN _solution.task_schedule :
                      _solution.task_schedule[tid].end = _solution.makespan}
    /\ critical_path' = {}
    /\ passes' = 0
    /\ pc' = "while"
    /\ UNCHANGED <<tasks, resources, dependencies, _solution, ret, status,
                   time_limit, searched>>

\* one pass of `while current:` (preds collected, edges appended,
\* current = preds)
TracePass ==
    /\ pc = "while"
    /\ current # {}
    /\ LET edges == TightEdges(_solution, dependencies, current)
       IN  /\ current' = {d[1] : d \in edges}
           /\ critical_path' = critical_path \cup edges
    /\ passes' = (passes + 1) % (MaxPasses + 1)
    /\ pc' = "while"
    /\ UNCHANGED <<tasks, resources, dependencies, _solution, ret, status,
                   time_limit, searched>>

\* `while current:` with current empty: the loop is left, the edges are
\* printed / returned
TraceExit ==
    /\ pc = "while"
    /\ current = {}
    /\ pc' = "return"
    /\ UNCHANGED <<tasks, resources, dependencies, _solution, ret, status,
                   time_limit, searched, current, critical_path, passes>>

\* back in the caller
TraceReturn ==
    /\ pc = "return"
    /\ pc' = "idle"
    /\ UNCHANGED <<tasks, resources, dependencies, _solution, ret, status,
                   time_limit, searched, current, critical_path, passes>>

\* the caller (main_demo.main, streamlit_app): solve, then the report; no
\* solve runs while a trace is being made
NextTrace ==
    \/ (pc = "idle" /\ Next)
    \/ TraceCall
    \/ TracePass
    \/ TraceExit
    \/ TraceReturn

\* a trace that was called keeps running: the loop is straight-line Python
SpecTrace ==
    /\ InitMalformed
    /\ [][NextTrace]_vars
    /\ WF_vars(TracePass) /\ WF_vars(TraceExit)

----------------------------------------------------------------------------
(* Notions the properties are stated in.                                   *)

\* the last solve call returned (True or False) rather than raised
Returned == ret \in {"True", "False"}

\* some solve call has been made
Called == ret # "-"

\* the last solve call returned True; the stored dict then holds a schedule
Succeeded == ret = "True"

\* the stored result holds a schedule
HasSchedule == _solution # None /\ "task_schedule" \in DOMAIN _solution

\* the last solve call ended with an error raised before any search
StructuralError == ~Returned /\ ~searched /\ ~HasSchedule

\* the instance is valid in the sense of the data model: positive durations
\* and capacities, dependencies and demands over known ids, no cycle
ValidInstance ==
    /\ \A i \in 1..Len(tasks) : tasks[i].duration > 0
    /\ \A j \in 1..Len(resources) : resources[j].capacity > 0
    /\ \A d \in dependencies :
          d[1] \in TaskIds(tasks) /\ d[2] \in TaskIds(tasks)
    /\ \A i \in 1..Len(tasks) :
          DOMAIN tasks[i].resource_req
              \subseteq {resources[j].id : j \in 1..Len(resources)}
    /\ ~HasCycle(dependencies)

\* the entry of the returned task_schedule for task id `tid`
Sched(tid) == _solution.task_schedule[tid]

\* the tasks (indices) that the returned schedule runs at time t: [start, end)
RunningAt(t) ==
    {i \in 1..Len(tasks) :
        Sched(tasks[i].id).start <= t /\ t < Sched(tasks[i].id).end}

\* the total demand on resource id `rid` at time t in the returned schedule
UsageAt(rid, t) ==
    SumOver([i \in RunningAt(t) |-> Get(tasks[i].resource_req, rid, 0)],
            RunningAt(t))

----------------------------------------------------------------------------
\* C1: in every schedule that solve returns with success, each dependency
\* (p, s) has end(p) <= start(s).
C1_Precedence ==
    Succeeded =>
        \A d \in dependencies : Sched(d[1]).end <= Sched(d[2]).start

\* a returned schedule over a chain of two dependencies, one of them with
\* slack between the predecessor's end and the successor's start
C1_Witness ==
    /\ Succeeded
    /\ Cardinality(dependencies) = 2
    /\ \E d \in dependencies : Sched(d[1]).end < Sched(d[2]).start
    /\ \E d \in dependencies : Sched(d[1]).end = Sched(d[2]).start

\* C2: in every schedule that solve returns with success, for every resource
\* r and every time t with 0 <= t < makespan, the demands on r of the tasks
\* with start <= t < end sum to at most capacity(r).
C2_Capacity ==
    Succeeded =>
        \A j \in 1..Len(resources) :
            \A t \in 0..(_solution.makespan - 1) :
                UsageAt(resources[j].id, t) <= resources[j].capacity

\* a returned schedule in which two tasks run at the same time and together
\* use a resource up to its capacity, and a task that ends at t runs beside
\* nothing at t although it would not fit beside the task starting there
C2_Witness ==
    /\ Succeeded
    /\ \E j \in 1..Len(resources) :
          \E t \in 0..(_solution.makespan - 1) :
              /\ Cardinality(RunningAt(t)) = 2
              /\ UsageAt(resources[j].id, t) = resources[j].capacity
    /\ \E j \in 1..Len(resources) :
          \E a \in 1..Len(tasks), b \in 1..Len(tasks) :
              /\ Sched(tasks[a].id).end = Sched(tasks[b].id).start
              /\ Sched(tasks[a].id).start < Sched(tasks[a].id).end
              /\ Sched(tasks[b].id).start < Sched(tasks[b].id).end
              /\ Demand(tasks[a], resources[j]) + Demand(tasks[b], resources[j])
                    > resources[j].capacity

\* C3: a schedule returned with success has exactly one entry per input
\* task, and every entry has start >= 0, end - start equal to the task's
\* input duration, and that duration as its 'duration'.
C3_Durations ==
    Succeeded =>
        /\ DOMAIN _solution.task_schedule = TaskIds(tasks)
        /\ Cardinality(DOMAIN _solution.task_schedule) = Len(tasks)
        /\ \A i \in 1..Len(tasks) :
              /\ Sched(tasks[i].id).start >= 0
              /\ Sched(tasks[i].id).end - Sched(tasks[i].id).start
                    = tasks[i].duration
              /\ Sched(tasks[i].id).duration = tasks[i].duration

\* a returned schedule of three tasks of different durations, not all
\* starting at 0
C3_Witness ==
    /\ Succeeded
    /\ Len(tasks) = 3
    /\ \E i \in 1..Len(tasks), k \in 1..Len(tasks) :
          /\ tasks[i].duration # tasks[k].duration
          /\ Sched(tasks[i].id).start > 0

\* C4: the makespan reported with a schedule is the largest end time of the
\* schedule's tasks.
C4_Makespan ==
    Succeeded =>
        /\ \A tid \in DOMAIN _solution.task_schedule :
              Sched(tid).end <= _solution.makespan
        /\ \E tid \in DOMAIN _solution.task_schedule :
              Sched(tid).end = _solution.makespan

\* a returned schedule whose tasks end at different times
C4_Witness ==
    /\ Succeeded
    /\ \E tid \in DOMAIN _solution.task_schedule :
          Sched(tid).end < _solution.makespan
    /\ _solution.makespan > 0

----------------------------------------------------------------------------
(* Schedules of the instance, stated without the CP model: start times     *)
(* with fixed durations, precedence and capacity.                          *)

\* the end of task index i when it starts at s[its id]
EndAt(s, i) == s[tasks[i].id] + tasks[i].duration

\* start times that respect every dependency and every resource's capacity
FeasibleStarts ==
    LET H == max_makespan(tasks)
    IN  {s \in [TaskIds(tasks) -> 0..H] :
            /\ \A d \in dependencies :
                  \A p \in 1..Len(tasks), q \in 1..Len(tasks) :
                      (tasks[p].id = d[1] /\ tasks[q].id = d[2])
                          => EndAt(s, p) <= s[d[2]]
            /\ \A j \in 1..Len(resources) :
                  \A t \in 0..H :
                      LET run == {i \in 1..Len(tasks) :
                                     s[tasks[i].id] <= t /\ t < EndAt(s, i)}
                      IN  SumOver([i \in run |->
                                      Get(tasks[i].resource_req,
                                          resources[j].id, 0)], run)
                              <= resources[j].capacity}

\* the completion time of the last task under start times s
MakespanOf(s) == MaxOf({EndAt(s, i) : i \in 1..Len(tasks)})

\* C5: when solve is not cut off by the time budget and returns a schedule,
\* no feasible schedule of the instance has a smaller makespan.  (Start
\* times beyond the sum of the durations give a larger makespan than any
\* returned one, so the start times 0..sum are all that matter.)
C5_Optimal ==
    (Succeeded /\ status = "OPTIMAL") =>
        \A s \in FeasibleStarts : _solution.makespan <= MakespanOf(s)

\* a proven optimum of an instance that also has worse schedules, and whose
\* tasks cannot all run side by side
C5_Witness ==
    /\ Succeeded /\ status = "OPTIMAL"
    /\ Len(tasks) >= 2
    /\ \E s \in FeasibleStarts : MakespanOf(s) > _solution.makespan
    /\ \E i \in 1..Len(tasks) : _solution.makespan > tasks[i].duration
    /\ \A i \in 1..Len(tasks) : tasks[i].duration > 0

\* C6: for an instance whose dependencies contain a cycle, a solve call
\* fails with a structural error, distinct from the infeasible/timeout
\* outcome and raised before any search, and no schedule is produced.
C6_CycleIsStructuralError ==
    (Called /\ HasCycle(dependencies)) => StructuralError

C8_NonPositiveIsStructuralError ==
    (/\ Called
     /\ \/ \E i \in 1..Len(tasks) : tasks[i].duration <= 0
        \/ \E j \in 1..Len(resources) : resources[j].capacity <= 0)
        => StructuralError

\* C9: for an instance in which a dependency names an unknown task id or a
\* resource demand names an unknown resource id, a solve call fails with a
\* structural error and returns no schedule.
C9_UnknownIdIsStructuralError ==
    (/\ Called
     /\ \/ DepsKeyError(tasks, dependencies)
        \/ \E i \in 1..Len(tasks) :
              ~(DOMAIN tasks[i].resource_req
                  \subseteq {resources[j].id : j \in 1..Len(resources)}))
        => StructuralError

\* some single task demands more of a resource than the resource's capacity
OverDemand ==
    \E i \in 1..Len(tasks), j \in 1..Len(resources) :
        Get(tasks[i].resource_req, resources[j].id, 0) > resources[j].capacity

\* C10: for an otherwise valid instance in which a single task demands more
\* of a resource than its capacity, a solve call returns False, stores a
\* result with a failure status and no schedule, and raises nothing.
C10_OverDemandFails ==
    (Called /\ ValidInstance /\ OverDemand) =>
        /\ ret = "False"
        /\ _solution = FailedDict
        /\ ~HasSchedule

\* such an instance, with other tasks that fit, proven infeasible
C10_Witness ==
    /\ Called /\ ValidInstance /\ OverDemand
    /\ status = "INFEASIBLE"
    /\ ret = "False"
    /\ \E i \in 1..Len(tasks), j \in 1..Len(resources) :
          /\ Get(tasks[i].resource_req, resources[j].id, 0) > 0
          /\ Get(tasks[i].resource_req, resources[j].id, 0)
                <= resources[j].capacity

----------------------------------------------------------------------------
(* The critical path of the dependency graph, resources ignored.           *)

RECURSIVE LongestChainTo(_)
\* the largest sum of durations along a chain of dependencies that ends
\* with task id `tid` (defined when the dependencies have no cycle)
LongestChainTo(tid) ==
    LET preds == {d[1] : d \in {x \in dependencies : x[2] = tid}}
        before == {LongestChainTo(p) : p \in preds} \cup {0}
    IN  MaxOf(before) + TaskOf(tasks, tid).duration

\* the critical-path length
CriticalPathLength ==
    MaxOf({LongestChainTo(tid) : tid \in TaskIds(tasks)})

\* C11: for every valid instance, the makespan returned with a schedule is
\* at least the critical-path length: the largest sum of durations along a
\* chain of dependencies p1 -> p2 -> ... -> pk.
C11_CriticalPathBound ==
    (Succeeded /\ ValidInstance) =>
        _solution.makespan >= CriticalPathLength

\* a valid instance solved to completion whose three tasks form one chain
\* of dependencies, the makespan being exactly the length of the chain
C11_Witness ==
    /\ Succeeded /\ ValidInstance /\ status = "OPTIMAL"
    /\ Len(tasks) = 3
    /\ \E a \in TaskIds(tasks), b \in TaskIds(tasks), c \in TaskIds(tasks) :
          dependencies = {<<a, b>>, <<b, c>>} /\ a # c
    /\ _solution.makespan = CriticalPathLength
    /\ CriticalPathLength = max_makespan(tasks)

----------------------------------------------------------------------------
(* Two instances that differ in one capacity.                              *)

\* the resource lists that differ from `resources` only in that one
\* resource has a smaller (still positive) capacity
Tightened ==
    {rs2 \in UNION {{[resources EXCEPT ![j].capacity = c] :
                        c \in 1..(resources[j].capacity - 1)} :
                    j \in 1..Len(resources)} : TRUE}

\* what solve may get from the solver for the instance with resources rs2
SecondRun(rs2) == CpSolverOutcomes(tasks, rs2, dependencies, time_limit)

\* C12 (as claimed): for two valid instances that differ only in a smaller
\* capacity of one resource in the second, the makespan computed for the
\* second is never smaller than the one computed for the first, and if the
\* first is infeasible so is the second.  (The state holds the result of
\* the first; the second ranges over the tightened instances.)
C12_MonotoneAnyRun ==
    (Returned /\ ValidInstance) =>
        \A rs2 \in Tightened : \A o2 \in SecondRun(rs2) :
            /\ (Succeeded /\ IsSuccessStatus(o2.status))
                  => o2.values.makespan >= _solution.makespan
            /\ status = "INFEASIBLE" => ~IsSuccessStatus(o2.status)

\* C12 (amended): the same, provided the solve of the first instance was
\* not cut off by the time budget.
C12_MonotoneCompleted ==
    (Returned /\ ValidInstance /\ status \in {"OPTIMAL", "INFEASIBLE"}) =>
        \A rs2 \in Tightened : \A o2 \in SecondRun(rs2) :
            /\ (Succeeded /\ IsSuccessStatus(o2.status))
                  => o2.values.makespan >= _solution.makespan
            /\ status = "INFEASIBLE" => ~IsSuccessStatus(o2.status)

\* a proven optimum of a valid instance for which a smaller capacity makes
\* the optimum strictly larger
C12_Witness ==
    /\ Returned /\ ValidInstance /\ status = "OPTIMAL"
    /\ \E rs2 \in Tightened : \E o2 \in SecondRun(rs2) :
          /\ o2.status = "OPTIMAL"
          /\ o2.values.makespan > _solution.makespan

----------------------------------------------------------------------------
\* C13: calling solve twice on the same tasks, resources and dependencies
\* yields identical results: the same status, the same makespan and the
\* same start and end for every task.  Stated for two successive calls on
\* one object with the same time limit that both run to completion (calls
\* cut off by the time budget are left out: they are the ones most likely
\* to differ).
C13_Deterministic ==
    [][(/\ status = "OPTIMAL" /\ status' = "OPTIMAL"
        /\ time_limit' = time_limit)
            => (_solution' = _solution /\ ret' = ret)]_vars

----------------------------------------------------------------------------
\* the instance is two tasks with no dependency between them, each fitting
\* every resource alone, that together exceed the capacity of some resource
TwoCompetingTasks ==
    /\ ValidInstance /\ ~OverDemand
    /\ Len(tasks) = 2
    /\ dependencies = {}
    /\ \E j \in 1..Len(resources) :
          Demand(tasks[1], resources[j]) + Demand(tasks[2], resources[j])
              > resources[j].capacity

\* C14: for two independent tasks whose combined demand on some resource
\* exceeds its capacity (each alone fits), the returned schedule runs one
\* after the other: one starts at 0, the other exactly at the first one's
\* end, and the makespan is the sum of the two durations.
C14_Serialized ==
    (Succeeded /\ TwoCompetingTasks) =>
        /\ \E a \in TaskIds(tasks), b \in TaskIds(tasks) :
              /\ a # b
              /\ Sched(a).start = 0
              /\ Sched(b).start = Sched(a).end
        /\ _solution.makespan = tasks[1].duration + tasks[2].duration

\* durations 3 and 4, one unit each of a resource of capacity 1: makespan 7
C14_Witness ==
    /\ Succeeded /\ TwoCompetingTasks
    /\ tasks[1].duration = 3 /\ tasks[2].duration = 4
    /\ resources[1].capacity = 1
    /\ Demand(tasks[1], resources[1]) = 1
    /\ Demand(tasks[2], resources[1]) = 1
    /\ _solution.makespan = 7
    /\ Sched(2).start = 0 /\ Sched(1).start = 4

----------------------------------------------------------------------------
\* the last call was made without a budget (the default applies) or with a
\* budget of zero
ZeroOrUnspecifiedBudget == time_limit \in {0, DefaultTimeLimit}

\* the start times of the stored schedule
ReturnedStarts == [tid \in TaskIds(tasks) |-> Sched(tid).start]

\* C15 (as stated): a call with a budget of zero, or without one, runs to
\* completion: it never ends with a timeout outcome and never returns a
\* schedule that is not proven optimal.
C15_RunsToCompletion ==
    (Returned /\ ZeroOrUnspecifiedBudget) =>
        status \in {"OPTIMAL", "INFEASIBLE"}

\* C15 (amended): a call without a budget runs under 30 seconds and a budget
\* of zero is zero seconds, so such a call may be cut off; a call that is cut
\* off either fails and stores the bare FAILED dict, or returns True with a
\* schedule that respects every dependency and capacity of a valid instance
\* but is not proven optimal.
C15_BudgetCutOff ==
    (Returned /\ ZeroOrUnspecifiedBudget) =>
        /\ status \in {"OPTIMAL", "FEASIBLE", "INFEASIBLE", "UNKNOWN"}
        /\ status = "UNKNOWN" => (ret = "False" /\ _solution = FailedDict)
        /\ status = "FEASIBLE" =>
              /\ ret = "True" /\ HasSchedule
              /\ ValidInstance => ReturnedStarts \in FeasibleStarts

\* a call with a budget of zero that returned a schedule longer than the
\* shortest one
C15_Witness ==
    /\ Returned /\ time_limit = 0 /\ ValidInstance
    /\ status = "FEASIBLE" /\ ret = "True"
    /\ ReturnedStarts \in FeasibleStarts
    /\ \E s \in FeasibleStarts : MakespanOf(s) < _solution.makespan

----------------------------------------------------------------------------
\* C16: the solution accessor returns None before any solve call and after
\* a solve call that failed; it returns a non-None result only after a
\* successful solve.
C16_NoneUnlessSuccess ==
    /\ ret \in {"-", "False"} => solution = None
    /\ solution # None => ret = "True"

----------------------------------------------------------------------------
\* the stored result has status SUCCESS
StoredSuccess == _solution # None /\ _solution.status = "SUCCESS"

\* C17: after any sequence of solve calls on one object, makespan() is
\* non-None exactly when the most recent call returned True, exactly when
\* the stored result has status SUCCESS; a failing call replaces a schedule
\* stored earlier by the bare FAILED dict, and before the first call
\* makespan() is None.
C17_MakespanFollowsLastSolve ==
    /\ (makespan # None) <=> (ret = "True")
    /\ (ret = "True") <=> StoredSuccess
    /\ StoredSuccess => makespan = PyInt(_solution.makespan)
    /\ ret = "False" => (_solution = FailedDict /\ ~HasSchedule)
    /\ ret = "-" => makespan = None

\* a call that failed by running out of time on an instance that has
\* schedules (which other calls on the same object return)
C17_Witness ==
    /\ ret = "False" /\ status = "UNKNOWN"
    /\ ValidInstance /\ FeasibleStarts # {}
    /\ makespan = None /\ _solution = FailedDict

----------------------------------------------------------------------------
\* C18: bounding every start, end and the makespan by the sum of all
\* durations never removes feasibility: for an instance with positive
\* durations, acyclic dependencies and every single demand within capacity,
\* the constraint model has a solution, so a solve that is not cut off
\* returns a schedule, with makespan at most the sum of all durations.
C18_HorizonKeepsFeasibility ==
    (Called /\ ValidInstance /\ ~OverDemand) =>
        /\ Solutions(tasks, resources, dependencies) # {}
        /\ status # "INFEASIBLE"
        /\ status = "OPTIMAL" =>
              /\ Succeeded
              /\ _solution.makespan <= max_makespan(tasks)

\* three independent tasks that one resource forces to run one after the
\* other: the optimum uses the whole horizon
C18_Witness ==
    /\ Succeeded /\ status = "OPTIMAL"
    /\ ValidInstance /\ ~OverDemand
    /\ Len(tasks) = 3 /\ dependencies = {}
    /\ _solution.makespan = max_makespan(tasks)

----------------------------------------------------------------------------
\* C19: the backward critical-path trace terminates for every successful
\* solution returned by the solver: once it is called on a SUCCESS result,
\* the set of current tasks eventually becomes empty and the trace returns.
C19_TraceTerminates == (pc = "while") ~> (pc = "return")

\* every edge the trace reports is a dependency whose predecessor ends
\* exactly when its successor starts
TraceEdgesAreTight ==
    pc \in {"while", "return"} =>
        \A e \in critical_path :
            /\ e \in dependencies
            /\ Sched(e[1]).end = Sched(e[2]).start

\* on an instance with positive durations the trace makes at most one pass
\* per task
TracePassesBounded ==
    (pc \in {"while", "return"} /\ ValidInstance) => passes <= Len(tasks)

\* on an instance with positive durations and no cycle the trace returns
TraceTerminatesOnValid == (pc = "while" /\ ValidInstance) ~> (pc = "return")

====
